---- MODULE Spec2Model ----
(***************************************************************************)
(* Model of dagger's Python client core (sdk/python/src/dagger/client/     *)
(* _core.py): the Field selection node, the forkable query Context         *)
(* (select, select_multiple, build), and execute with its concurrent       *)
(* identifier resolution (resolve_ids).                                    *)
(*                                                                         *)
(* Python objects with identity are kept in heaps: `fields` holds the      *)
(* Field objects, `dicts` the args dictionaries they point to, `ctxs` the  *)
(* selections deque of every Context.  A deque is a sequence of Field      *)
(* references, a Field's args is a reference into `dicts`, so that the     *)
(* sharing produced by deque.copy() and dataclasses.replace() is visible.  *)
(***************************************************************************)
EXTENDS Integers, Sequences, FiniteSets, TLC

VARIABLES ctxs, fields, dicts, ex, hist, last

vars == <<ctxs, fields, dicts, ex, hist, last>>

(* ------------------------------ bounds --------------------------------- *)
MaxCtx == 4
MaxLen == 3
MaxExec == 1

(* ------------------------------ values --------------------------------- *)
Str(s) == [kind |-> "str", v |-> s]
Bool(b) == [kind |-> "bool", v |-> b]
Handle(h) == [kind |-> "handle", v |-> h]
Id(h) == [kind |-> "id", v |-> h]
Input(n) == [kind |-> "input", v |-> n]
Dict(n) == [kind |-> "dict", v |-> n]
SeqOf(t, xs) == [kind |-> "seq", ty |-> t, items |-> xs]
MISSING == [kind |-> "MISSING", v |-> "MISSING"]

EmptyMap == << >>

Arg(n, val, def, sameObj) == [name |-> n, value |-> val, default |-> def, same |-> sameObj]

(* Arg.as_input: a structured input becomes a field mapping, a sequence of *)
(* structured inputs is converted element-wise, anything else is passed    *)
(* through.                                                                *)
as_input(arg) ==
    LET v == arg.value IN
    IF v.kind = "input" THEN Dict(v.v)
    ELSE IF v.kind = "seq" /\ Len(v.items) > 0
            /\ \A i \in 1..Len(v.items) : v.items[i].kind = "input"
         THEN SeqOf("list", [i \in 1..Len(v.items) |-> Dict(v.items[i].v)])
    ELSE v

(* `arg.value is not arg.default`: object identity, carried by the input.  *)
IsNotDefault(arg) == ~arg.same

(* the dict comprehension of select: later entries of a name win           *)
SelectArgs(args) ==
    LET kept == {i \in 1..Len(args) : IsNotDefault(args[i])}
        lastOf(n) == CHOOSE i \in kept : args[i].name = n
                         /\ \A j \in kept : args[j].name = n => j <= i
    IN [n \in {args[i].name : i \in kept} |-> as_input(args[lastOf(n)])]

(* ------------------------------ Field ---------------------------------- *)
Field(t, n, a) == [type_name |-> t, name |-> n, args |-> a, children |-> EmptyMap]

(* NoArgs is the private, never shared empty dictionary of a leaf built by *)
(* select_multiple: Field(type_name, v, {})                                *)
NoArgs == 0
Leaf(t, n) == [type_name |-> t, name |-> n, args |-> NoArgs, children |-> EmptyMap]

Heap == [ctxs |-> ctxs, fields |-> fields, dicts |-> dicts]

(* ------------------------------ inputs --------------------------------- *)
Call(t, n, a) == [type_name |-> t, field_name |-> n, args |-> a]

SelectCalls ==
    { Call("Query", "container", << >>),
      Call("Container", "from",
           <<Arg("address", Str("alpine"), MISSING, FALSE),
             Arg("args", SeqOf("list", << >>), SeqOf("list", << >>), FALSE),
             Arg("skipEntrypoint", Bool("False"), Bool("False"), TRUE),
             Arg("tty", Bool("True"), Bool("False"), FALSE),
             Arg("buildArg", Input("BuildArg"), MISSING, FALSE)>>),
      Call("Container", "id", << >>),
      Call("Container", "withRootfs", <<Arg("directory", Handle("h1"), MISSING, FALSE)>>),
      Call("Container", "withMounts",
           <<Arg("sources", SeqOf("tuple", <<Handle("h1"), Handle("h2")>>), MISSING, FALSE)>>) }

(* the generated accessors select a field of Query on the empty chain of a *)
(* root and fields of the object type reached after that                  *)
CallsFor(chain) ==
    {call \in SelectCalls : (call.type_name = "Query") <=> (Len(chain) = 0)}

FieldMaps ==
    { [a \in {"a", "b"} |-> IF a = "a" THEN "stdout" ELSE "stderr"],
      [a \in {"b", "c"} |-> IF a = "b" THEN "exitCode" ELSE "stdout"] }

(* ------------------------------ Context -------------------------------- *)
Last(s) == s[Len(s)]
Front(s) == SubSeq(s, 1, Len(s) - 1)

(* select appending to the receiver's own deque instead of a copy          *)
select_noCopy(H, c, call) ==
    LET args_ == SelectArgs(call.args)
        d == Len(H.dicts) + 1
        f == Len(H.fields) + 1
        selections == Append(H.ctxs[c], f)
    IN [ctxs |-> Append([H.ctxs EXCEPT ![c] = selections], selections),
        fields |-> Append(H.fields, Field(call.type_name, call.field_name, d)),
        dicts |-> Append(H.dicts, args_)]

(* select using appendleft                                                 *)
select_appendleft(H, c, call) ==
    LET args_ == SelectArgs(call.args)
        d == Len(H.dicts) + 1
        f == Len(H.fields) + 1
        selections == <<f>> \o H.ctxs[c]
    IN [ctxs |-> Append(H.ctxs, selections),
        fields |-> Append(H.fields, Field(call.type_name, call.field_name, d)),
        dicts |-> Append(H.dicts, args_)]

(* Context.select: a new Field on a copy of the receiver's deque           *)
select(H, c, call) ==
    LET args_ == SelectArgs(call.args)
        d == Len(H.dicts) + 1
        f == Len(H.fields) + 1
        selections == Append(H.ctxs[c], f)
    IN [ctxs |-> Append(H.ctxs, selections),
        fields |-> Append(H.fields, Field(call.type_name, call.field_name, d)),
        dicts |-> Append(H.dicts, args_)]

(* select_multiple adding the aliases to the children already there       *)
select_multiple_merge(H, c, type_name, fmap) ==
    LET parent == H.fields[Last(H.ctxs[c])]
        field_ == [parent EXCEPT !.children =
                      [k \in DOMAIN fmap |-> Leaf(type_name, fmap[k])] @@ parent.children]
        f == Len(H.fields) + 1
        selections == Append(Front(H.ctxs[c]), f)
    IN [ctxs |-> Append(H.ctxs, selections),
        fields |-> Append(H.fields, field_),
        dicts |-> H.dicts]

(* Context.select_multiple: the last Field is replaced, on a copy of the   *)
(* deque, by a copy of itself with the aliases as its only children; the   *)
(* copy made by dataclasses.replace keeps the same args dictionary.        *)
select_multiple(H, c, type_name, fmap) ==
    LET parent == H.fields[Last(H.ctxs[c])]
        field_ == [parent EXCEPT !.children =
                      [k \in DOMAIN fmap |-> Leaf(type_name, fmap[k])]]
        f == Len(H.fields) + 1
        selections == Append(Front(H.ctxs[c]), f)
    IN [ctxs |-> Append(H.ctxs, selections),
        fields |-> Append(H.fields, field_),
        dicts |-> H.dicts]

(* add_child keeping the children already there                            *)
add_child_merge(self, child) ==
    [self EXCEPT !.children = (child.name :> child) @@ self.children]

(* Field.add_child: dataclasses.replace gives a new Field whose children   *)
(* is the one-entry map {child.name: child}                                *)
add_child(self, child) == [self EXCEPT !.children = (child.name :> child)]

_collapse(child, field_) == add_child(field_, child)

Reversed(s) == [i \in 1..Len(s) |-> s[Len(s) + 1 - i]]

(* functools.reduce(function, iterable) without initial value              *)
RECURSIVE reduce_from(_, _, _)
reduce_from(acc, s, i) ==
    IF i > Len(s) THEN acc ELSE reduce_from(_collapse(acc, s[i]), s, i + 1)

reduce(s) == reduce_from(s[1], s, 2)

(* the args dictionary behind a reference                                 *)
ArgsOf(H, a) == IF a = NoArgs THEN EmptyMap ELSE H.dicts[a]

(* Field.to_dsl: the schema field applied to the args, with the children   *)
(* rendered recursively as its aliased sub-selection                       *)
RECURSIVE to_dsl(_, _)
to_dsl(H, node) ==
    [type_ |-> node.type_name, field |-> node.name, args |-> ArgsOf(H, node.args),
     selected |-> [a \in DOMAIN node.children |-> to_dsl(H, node.children[a])]]

(* build with an add_child that sets `children` on the node itself         *)
(* instead of on a copy: every node but the last is left holding the rest  *)
(* of the chain                                                            *)
build_inPlace(H, c) ==
    IF Len(H.ctxs[c]) = 0
    THEN [err |-> "InvalidQueryError", fields |-> H.fields]
    ELSE LET sels == H.ctxs[c]
             nodes == [i \in 1..Len(sels) |-> H.fields[sels[i]]]
             from(i) == reduce(Reversed(SubSeq(nodes, i, Len(nodes))))
         IN [err |-> "none", root |-> from(1), dsl |-> to_dsl(H, from(1)),
             fields |-> [f \in DOMAIN H.fields |->
                           IF \E i \in 1..(Len(sels) - 1) : sels[i] = f
                           THEN from(CHOOSE i \in 1..(Len(sels) - 1) : sels[i] = f)
                           ELSE H.fields[f]]]

(* build taking a chain of one node for an empty one                       *)
build_offByOne(H, c) ==
    IF Len(H.ctxs[c]) <= 1
    THEN [err |-> "InvalidQueryError", fields |-> H.fields]
    ELSE LET root == reduce(Reversed([i \in 1..Len(H.ctxs[c]) |-> H.fields[H.ctxs[c][i]]]))
         IN [err |-> "none", root |-> root, dsl |-> to_dsl(H, root), fields |-> H.fields]

(* Context.build: the error on an empty chain, else the collapsed root and *)
(* its rendering; `fields` is the Field heap as build leaves it.           *)
build(H, c) ==
    IF Len(H.ctxs[c]) = 0
    THEN [err |-> "InvalidQueryError", fields |-> H.fields]
    ELSE LET root == reduce(Reversed([i \in 1..Len(H.ctxs[c]) |-> H.fields[H.ctxs[c][i]]]))
         IN [err |-> "none", root |-> root, dsl |-> to_dsl(H, root), fields |-> H.fields]

(* ------------------------------ resolve_ids ---------------------------- *)
is_id_type(v) == v.kind = "handle"

is_id_type_sequence(v) ==
    /\ v.kind = "seq"
    /\ \E i \in 1..Len(v.items) : is_id_type(v.items[i])

(* list(v)                                                                 *)
list(v) == [v EXCEPT !.ty = "list"]

(* the sequence branch taken only when every element is a handle           *)
ScanTasks_allHandles(H, c) ==
    LET sels == H.ctxs[c] IN
    UNION { UNION { LET v == ArgsOf(H, H.fields[sels[i]].args)[k] IN
                    IF v.kind = "seq" /\ \A j \in 1..Len(v.items) : is_id_type(v.items[j])
                    THEN {[pos |-> i, k |-> k, idx |-> j, h |-> v.items[j].v] :
                             j \in 1..Len(v.items)}
                    ELSE IF is_id_type(v)
                    THEN {[pos |-> i, k |-> k, idx |-> 0, h |-> v.v]}
                    ELSE {}
                  : k \in DOMAIN ArgsOf(H, H.fields[sels[i]].args) }
          : i \in 1..Len(sels) }

(* the loop without its sequence branch                                    *)
ScanTasks_scalarOnly(H, c) ==
    LET sels == H.ctxs[c] IN
    UNION { UNION { LET v == ArgsOf(H, H.fields[sels[i]].args)[k] IN
                    IF is_id_type(v)
                    THEN {[pos |-> i, k |-> k, idx |-> 0, h |-> v.v]}
                    ELSE {}
                  : k \in DOMAIN ArgsOf(H, H.fields[sels[i]].args) }
          : i \in 1..Len(sels) }

(* the loop without its branch for a handle passed on its own              *)
ScanTasks_seqOnly(H, c) ==
    LET sels == H.ctxs[c] IN
    UNION { UNION { LET v == ArgsOf(H, H.fields[sels[i]].args)[k] IN
                    IF is_id_type_sequence(v)
                    THEN {[pos |-> i, k |-> k, idx |-> j, h |-> v.items[j].v] :
                             j \in {j \in 1..Len(v.items) : is_id_type(v.items[j])}}
                    ELSE {}
                  : k \in DOMAIN ArgsOf(H, H.fields[sels[i]].args) }
          : i \in 1..Len(sels) }

(* the synchronous loop of resolve_ids: sequence arguments holding handles *)
(* are replaced by lists, and one task is started per handle.  A task is   *)
(* (pos, k, idx, h): idx = 0 for _resolve_id, the 1-based element index    *)
(* for _resolve_seq_id.                                                    *)
ScanTasks(H, c) ==
    LET sels == H.ctxs[c] IN
    UNION { UNION { LET v == ArgsOf(H, H.fields[sels[i]].args)[k] IN
                    IF is_id_type_sequence(v)
                    THEN {[pos |-> i, k |-> k, idx |-> j, h |-> v.items[j].v] :
                             j \in {j \in 1..Len(v.items) : is_id_type(v.items[j])}}
                    ELSE IF is_id_type(v)
                    THEN {[pos |-> i, k |-> k, idx |-> 0, h |-> v.v]}
                    ELSE {}
                  : k \in DOMAIN ArgsOf(H, H.fields[sels[i]].args) }
          : i \in 1..Len(sels) }

ScanDicts(H, c) ==
    LET sels == H.ctxs[c]
        mine == {H.fields[sels[i]].args : i \in 1..Len(sels)}
    IN [d \in DOMAIN H.dicts |->
           IF d \in mine
           THEN [k \in DOMAIN H.dicts[d] |->
                    IF is_id_type_sequence(H.dicts[d][k]) THEN list(H.dicts[d][k])
                    ELSE H.dicts[d][k]]
           ELSE H.dicts[d]]

(* the identifier dropped instead of stored                                *)
ResolveWrite_discard(H, c, t, id_) == H.dicts

(* the identifier stored at the first element still holding a handle, i.e. *)
(* in the order the fetches complete                                       *)
ResolveWrite_completionOrder(H, c, t, id_) ==
    LET d == H.fields[H.ctxs[c][t.pos]].args
        items == H.dicts[d][t.k].items
        open == {j \in 1..Len(items) : items[j].kind = "handle"}
    IN IF t.idx = 0 THEN [H.dicts EXCEPT ![d][t.k] = id_]
       ELSE IF open = {} THEN H.dicts
       ELSE [H.dicts EXCEPT ![d][t.k].items[CHOOSE j \in open :
                                               \A o \in open : j <= o] = id_]

(* _resolve_seq_id assigning to the argument instead of its element        *)
ResolveWrite_wholeSlot(H, c, t, id_) ==
    LET d == H.fields[H.ctxs[c][t.pos]].args IN
    [H.dicts EXCEPT ![d][t.k] = id_]

(* _resolve_id / _resolve_seq_id after `await v.id()` returned `id_`: the  *)
(* target is looked up through self.selections[pos] when the value arrives *)
ResolveWrite(H, c, t, id_) ==
    LET d == H.fields[H.ctxs[c][t.pos]].args IN
    IF t.idx = 0
    THEN [H.dicts EXCEPT ![d][t.k] = id_]
    ELSE [H.dicts EXCEPT ![d][t.k].items[t.idx] = id_]

(* a scope that does not wait for its child tasks                          *)
TaskGroupJoined_noWait(e) == TRUE

(* leaving `async with anyio.create_task_group()`: every child task ended  *)
TaskGroupJoined(e) == e.tasks = {}

(* a scope that swallows the failure of a child task                       *)
TaskGroupRaises_swallow(e) == FALSE

(* the task group re-raises on exit when a child task raised               *)
TaskGroupRaises(e) == e.failed

(* a cancel scope that is never cancelled                                 *)
CancelCalled_never(e) == FALSE

(* the cancel scope of the task group is cancelled as soon as a child task *)
(* raised: the children still awaiting are cancelled at their await        *)
CancelCalled(e) == e.failed

(* ------------------------------ execute -------------------------------- *)
SessionOutcomes ==
    {"ok", "TimeoutException", "RequestError", "TransportClosed",
     "TransportProtocolError", "TransportServerError",
     "TransportQueryError:derivable", "TransportQueryError:raw"}

(* the classes an exception raised by session.execute is an instance of:  *)
(* httpx.TimeoutException derives from httpx.RequestError                  *)
ClassesOf(outcome) ==
    CASE outcome = "TimeoutException" -> {"TimeoutException", "RequestError"}
      [] outcome = "RequestError" -> {"RequestError"}
      [] outcome = "TransportClosed" -> {"TransportClosed"}
      [] outcome = "TransportProtocolError" -> {"TransportProtocolError"}
      [] outcome = "TransportServerError" -> {"TransportServerError"}
      [] outcome \in {"TransportQueryError:derivable", "TransportQueryError:raw"} ->
            {"TransportQueryError"}
      [] OTHER -> {}

(* the request-level clause put before the timeout clause                  *)
ExceptClauses_requestFirst ==
    << [catch |-> {"RequestError"}, raise |-> "TransportError"],
       [catch |-> {"TimeoutException"}, raise |-> "ExecuteTimeoutError"],
       [catch |-> {"TransportClosed"}, raise |-> "TransportError"],
       [catch |-> {"TransportProtocolError", "TransportServerError"},
        raise |-> "TransportError"],
       [catch |-> {"TransportQueryError"}, raise |-> "_query_error_from_transport"] >>

(* the except clauses of execute, in order                                 *)
ExceptClauses ==
    << [catch |-> {"TimeoutException"}, raise |-> "ExecuteTimeoutError"],
       [catch |-> {"RequestError"}, raise |-> "TransportError"],
       [catch |-> {"TransportClosed"}, raise |-> "TransportError"],
       [catch |-> {"TransportProtocolError", "TransportServerError"},
        raise |-> "TransportError"],
       [catch |-> {"TransportQueryError"}, raise |-> "_query_error_from_transport"] >>

(* what execute raises for an exception of session.execute: the first      *)
(* clause that catches it decides; an uncaught exception goes through, and *)
(* so does a query error from which no error could be derived              *)
RaisedFor(outcome) ==
    LET caught == {i \in 1..Len(ExceptClauses) :
                      ExceptClauses[i].catch \cap ClassesOf(outcome) # {}}
    IN IF caught = {} THEN outcome
       ELSE LET i == CHOOSE i \in caught : \A j \in caught : i <= j
                r == ExceptClauses[i].raise
            IN IF r # "_query_error_from_transport" THEN r
               ELSE IF outcome = "TransportQueryError:derivable" THEN "QueryError"
               ELSE "TransportQueryError"

NoQuery == [type_ |-> "none"]

(* ------------------------------ get_value ------------------------------ *)
(* response payloads: null, a string, a list, or a mapping                 *)
PNull == [kind |-> "null"]
PList(xs) == [kind |-> "list", items |-> xs]
PMap(f) == [kind |-> "map", m |-> f]

(* the mapping nested along names[i..j], with `leaf` at the bottom         *)
RECURSIVE NestAt(_, _, _, _)
NestAt(names, i, j, leaf) ==
    IF i > j THEN leaf ELSE PMap(names[i] :> NestAt(names, i + 1, j, leaf))

(* the responses the session may give to the query of a chain: the value   *)
(* of the last field, or a null or a list met on the way down              *)
Payloads(names) ==
    {NestAt(names, 1, Len(names), leaf) :
        leaf \in {Str("abc123"), PNull, PList(<<Str("abc123")>>)}}
    \cup {NestAt(names, 1, j, leaf) :
        j \in 1..(Len(names) - 1), leaf \in {PNull, PList(<<Str("abc123")>>)}}

ReturnTypes == {"None", "str", "Optional[str]"}

(* an object type of the schema with cached attributes (a Type subclass    *)
(* with __slots__), and the responses to a query that returns it: one      *)
(* object, or a list of two                                                *)
ObjSlots == {"a", "b"}

ObjResponses(names) ==
    { [payload |-> NestAt(names, 1, Len(names), PMap("a" :> Str("x"))),
       return_type |-> "Obj"],
      [payload |-> NestAt(names, 1, Len(names),
                          PList(<<PMap("a" :> Str("x")),
                                  PMap(("a" :> Str("y")) @@ ("b" :> Str("z")))>>)),
       return_type |-> "list[Obj]"] }

(* a walk that looks up the first field name only                         *)
walk_oneLevel(names, i, value) ==
    IF i > Len(names) \/ value.kind # "map" THEN value
    ELSE IF names[i] \notin DOMAIN value.m THEN [kind |-> "KeyError"]
    ELSE value.m[names[i]]

(* the loop of get_value: follow the field names while the value is a dict *)
RECURSIVE walk(_, _, _)
walk(names, i, value) ==
    IF i > Len(names) \/ value.kind # "map" THEN value
    ELSE IF names[i] \notin DOMAIN value.m THEN [kind |-> "KeyError"]
    ELSE walk(names, i + 1, value.m[names[i]])

is_bearable_None_always(return_type) == TRUE

(* TypeHint(return_type).is_bearable(None)                                 *)
is_bearable_None(return_type) == return_type = "Optional[str]"

(* the structuring hook _struct of the converter of Context `self`: the    *)
(* object is constructed on `self` (obj = cls(self)), and the slots found  *)
(* in d are set (their values are strings, which structure as themselves)  *)
_struct(self, d, cls) ==
    [kind |-> "obj", cls |-> cls, ctx |-> self,
     attrs |-> [slot \in ObjSlots \cap DOMAIN d.m |-> d.m[slot]]]

(* self.converter.structure: None stays None under an Optional and a       *)
(* string goes through str(); an object type goes through the hook, a list *)
(* of objects element by element                                           *)
structure(self, value, return_type) ==
    CASE return_type = "Obj" -> _struct(self, value, "Obj")
      [] return_type = "list[Obj]" ->
            PList([j \in 1..Len(value.items) |-> _struct(self, value.items[j], "Obj")])
      [] OTHER -> IF value.kind = "null" THEN PNull
                  ELSE IF value.kind = "str" THEN value
                  ELSE [kind |-> "str", of |-> value]

(* Context.get_value                                                       *)
get_value(H, c, value, return_type) ==
    LET names == [i \in 1..Len(H.ctxs[c]) |-> H.fields[H.ctxs[c][i]].name]
        v == walk(names, 1, value)
    IN IF v.kind = "KeyError" THEN [err |-> "KeyError", value |-> PNull]
       ELSE IF v.kind = "null" /\ ~is_bearable_None(return_type)
       THEN [err |-> "InvalidQueryError", value |-> PNull]
       ELSE [err |-> "none", value |-> structure(c, v, return_type)]

(* the state of execute on one Context.  pc: where execute is; tasks: the sub-resolutions in flight; failed: a   *)
(* sub-resolution raised; launched: every task started by this execute;    *)
(* query: the document handed to the session; err: what execute raised;    *)
(* result: what execute returned; runs: how many times execute was called *)
(* on the Context                                                          *)
IdleExec == [pc |-> "idle", tasks |-> {}, failed |-> FALSE, launched |-> {},
             query |-> NoQuery, err |-> "none", result |-> PNull, runs |-> 0]

RECURSIVE RunsUpTo(_, _)
RunsUpTo(e, n) == IF n = 0 THEN 0 ELSE e[n].runs + RunsUpTo(e, n - 1)

(* the number of execute calls made so far                                 *)
ExecCount == RunsUpTo(ex, Len(ex))

Init ==
    /\ ctxs = << << >> >>
    /\ fields = << >>
    /\ dicts = << >>
    /\ ex = << IdleExec >>
    /\ hist = << << >> >>
    /\ last = [op |-> "init"]

Select(c, call) ==
    /\ Len(ctxs) < MaxCtx
    /\ Len(ctxs[c]) < MaxLen
    /\ LET H == select(Heap, c, call) IN
        /\ ctxs' = H.ctxs
        /\ fields' = H.fields
        /\ dicts' = H.dicts
    /\ ex' = Append(ex, IdleExec)
    /\ hist' = Append(hist, Append(hist[c], call))
    /\ last' = [op |-> "select", ctx |-> c, call |-> call, res |-> Len(ctxs) + 1]

SelectMultiple(c, type_name, fmap) ==
    /\ Len(ctxs) < MaxCtx
    /\ Len(ctxs[c]) > 0
    /\ LET H == select_multiple(Heap, c, type_name, fmap) IN
        /\ ctxs' = H.ctxs
        /\ fields' = H.fields
        /\ dicts' = H.dicts
    /\ ex' = Append(ex, IdleExec)
    /\ hist' = Append(hist, hist[c])
    /\ last' = [op |-> "select_multiple", ctx |-> c, type_name |-> type_name,
                fmap |-> fmap, res |-> Len(ctxs) + 1]

(* Root.from_context(ctx): a root on a new Context without selections      *)
FromContext(c) ==
    /\ Len(ctxs) < MaxCtx
    /\ ctxs' = Append(ctxs, << >>)
    /\ ex' = Append(ex, IdleExec)
    /\ hist' = Append(hist, << >>)
    /\ last' = [op |-> "from_context", ctx |-> c, res |-> Len(ctxs) + 1]
    /\ UNCHANGED <<fields, dicts>>

(* build() called on Context c                                             *)
Build(c) ==
    /\ LET B == build(Heap, c) IN
        /\ fields' = B.fields
        /\ last' = IF B.err = "none"
                   THEN [op |-> "build", ctx |-> c, err |-> "none",
                         root |-> B.root, dsl |-> B.dsl]
                   ELSE [op |-> "build", ctx |-> c, err |-> B.err]
    /\ last' # last
    /\ UNCHANGED <<ctxs, dicts, ex, hist>>

(* execute(): up to the first suspension, i.e. the loop of resolve_ids     *)
ExecStart(c) ==
    /\ ex[c].pc \in {"idle", "done", "raised"}
    /\ ex' = [ex EXCEPT ![c] = [IdleExec EXCEPT !.pc = "resolving",
                                                 !.tasks = ScanTasks(Heap, c),
                                                 !.launched = ScanTasks(Heap, c),
                                                 !.runs = ex[c].runs + 1]]
    /\ dicts' = ScanDicts(Heap, c)
    /\ last' = [op |-> "resolve_ids", ctx |-> c]
    /\ UNCHANGED <<ctxs, fields, hist>>

(* one sub-resolution: `await v.id()` returns and the slot is written      *)
TaskDone(c, t) ==
    /\ ex[c].pc = "resolving"
    /\ ~CancelCalled(ex[c])
    /\ t \in ex[c].tasks
    /\ dicts' = ResolveWrite(Heap, c, t, Id(t.h))
    /\ ex' = [ex EXCEPT ![c].tasks = @ \ {t}]
    /\ last' = [op |-> "resolved", ctx |-> c, task |-> t]
    /\ UNCHANGED <<ctxs, fields, hist>>

(* one sub-resolution: `await v.id()` raises; the task group is cancelled  *)
TaskFail(c, t) ==
    /\ ex[c].pc = "resolving"
    /\ ~CancelCalled(ex[c])
    /\ t \in ex[c].tasks
    /\ ex' = [ex EXCEPT ![c].tasks = @ \ {t}, ![c].failed = TRUE]
    /\ last' = [op |-> "resolve_failed", ctx |-> c]
    /\ UNCHANGED <<ctxs, fields, dicts, hist>>

(* a sibling of a failed sub-resolution is cancelled at its await          *)
TaskCancelled(c, t) ==
    /\ ex[c].pc = "resolving"
    /\ CancelCalled(ex[c])
    /\ t \in ex[c].tasks
    /\ ex' = [ex EXCEPT ![c].tasks = @ \ {t}]
    /\ last' = [op |-> "resolve_cancelled", ctx |-> c]
    /\ UNCHANGED <<ctxs, fields, dicts, hist>>

(* the task group is left; on success query() compiles the chain and the   *)
(* document is handed to session.execute                                   *)
ExecSend(c) ==
    /\ ex[c].pc = "resolving"
    /\ TaskGroupJoined(ex[c])
    /\ IF TaskGroupRaises(ex[c])
       THEN /\ ex' = [ex EXCEPT ![c].pc = "raised", ![c].err = "ResolveError"]
            /\ last' = [op |-> "raise", ctx |-> c, err |-> "ResolveError",
                        outcome |-> "none"]
            /\ fields' = fields
       ELSE LET B == build(Heap, c) IN
            /\ fields' = B.fields
            /\ IF B.err # "none"
               THEN /\ ex' = [ex EXCEPT ![c].pc = "raised", ![c].err = B.err]
                    /\ last' = [op |-> "raise", ctx |-> c, err |-> B.err,
                                outcome |-> "none"]
               ELSE /\ ex' = [ex EXCEPT ![c].pc = "sent", ![c].query = B.dsl]
                    /\ last' = [op |-> "send", ctx |-> c]
    /\ UNCHANGED <<ctxs, dicts, hist>>

(* session.execute returns `payload` or raises; execute maps the failure   *)
(* or decodes the payload when a return type was asked for                 *)
ExecReturn(c, outcome, payload, return_type) ==
    /\ ex[c].pc = "sent"
    /\ IF outcome # "ok"
       THEN /\ ex' = [ex EXCEPT ![c].pc = "raised", ![c].err = RaisedFor(outcome)]
            /\ last' = [op |-> "raise", ctx |-> c, err |-> RaisedFor(outcome),
                        outcome |-> outcome]
       ELSE IF return_type = "None"
       THEN /\ ex' = [ex EXCEPT ![c].pc = "done"]
            /\ last' = [op |-> "return", ctx |-> c, outcome |-> outcome,
                        payload |-> PNull, return_type |-> return_type]
       ELSE LET r == get_value(Heap, c, payload, return_type) IN
            IF r.err # "none"
            THEN /\ ex' = [ex EXCEPT ![c].pc = "raised", ![c].err = r.err]
                 /\ last' = [op |-> "raise", ctx |-> c, err |-> r.err,
                             outcome |-> "ok", payload |-> payload,
                             return_type |-> return_type]
            ELSE /\ ex' = [ex EXCEPT ![c].pc = "done", ![c].result = r.value]
                 /\ last' = [op |-> "return", ctx |-> c, outcome |-> outcome,
                             payload |-> payload, return_type |-> return_type]
    /\ UNCHANGED <<ctxs, fields, dicts, hist>>

Next ==
    \/ \E c \in 1..Len(ctxs) : \E call \in CallsFor(ctxs[c]) : Select(c, call)
    \/ \E c \in 1..Len(ctxs), fmap \in FieldMaps : SelectMultiple(c, "Container", fmap)
    \/ \E c \in 1..Len(ctxs) : Build(c)
    \/ \E c \in 1..Len(ctxs) : ExecCount < MaxExec /\ ExecStart(c)
    \/ \E c \in 1..Len(ctxs) : \E t \in ex[c].tasks : TaskDone(c, t)
    \/ \E c \in 1..Len(ctxs) : \E t \in ex[c].tasks : TaskFail(c, t)
    \/ \E c \in 1..Len(ctxs) : \E t \in ex[c].tasks : TaskCancelled(c, t)
    \/ \E c \in 1..Len(ctxs) : ExecSend(c)
    \/ \E c \in 1..Len(ctxs), o \in SessionOutcomes \ {"ok"} :
          ExecReturn(c, o, PNull, "None")
    \/ \E c \in 1..Len(ctxs), rt \in ReturnTypes :
          \E p \in Payloads([i \in 1..Len(ctxs[c]) |-> fields[ctxs[c][i]].name]) :
             ExecReturn(c, "ok", p, rt)
    \/ \E c \in 1..Len(ctxs) :
          \E r \in ObjResponses([i \in 1..Len(ctxs[c]) |-> fields[ctxs[c][i]].name]) :
             ExecReturn(c, "ok", r.payload, r.return_type)
    \/ \E c \in 1..Len(ctxs) : FromContext(c)

Spec == Init /\ [][Next]_vars

(* two or more execute calls, at the same time or one after the other, on  *)
(* chains that pass handles: a container, a handle argument, a sequence of *)
(* handles, and the leaf `id`                                              *)
MaxConcExec == 2

ConcCalls ==
    {call \in SelectCalls : call.field_name \in {"container", "withRootfs",
                                                 "withMounts", "id"}}

NextConc ==
    \/ \E c \in 1..Len(ctxs) : \E call \in CallsFor(ctxs[c]) \cap ConcCalls :
          Select(c, call)
    \/ \E c \in 1..Len(ctxs) : ExecCount < MaxConcExec /\ ExecStart(c)
    \/ \E c \in 1..Len(ctxs) : \E t \in ex[c].tasks : TaskDone(c, t)
    \/ \E c \in 1..Len(ctxs) : \E t \in ex[c].tasks : TaskFail(c, t)
    \/ \E c \in 1..Len(ctxs) : \E t \in ex[c].tasks : TaskCancelled(c, t)
    \/ \E c \in 1..Len(ctxs) : ExecSend(c)
    \/ \E c \in 1..Len(ctxs) : ExecReturn(c, "ok", PNull, "None")

SpecConc == Init /\ [][NextConc]_vars

(* ====================== properties of the Context ====================== *)
Ctxs == 1..Len(ctxs)

(* a node as seen through a Context: its args dereferenced                 *)
NodeView(f) ==
    [type_name |-> fields[f].type_name, name |-> fields[f].name,
     args |-> ArgsOf(Heap, fields[f].args), children |-> fields[f].children]

ChainView(c) == [i \in 1..Len(ctxs[c]) |-> NodeView(ctxs[c][i])]

DictsOfCtx(c) == {fields[ctxs[c][i]].args : i \in 1..Len(ctxs[c])}

HasHandle(v) ==
    \/ v.kind = "handle"
    \/ v.kind = "seq" /\ \E i \in 1..Len(v.items) : v.items[i].kind = "handle"

(* the argument slots of chain c that still hold a handle                  *)
HandleSlots(c) ==
    UNION { {<<i, k>> : k \in {k \in DOMAIN ChainView(c)[i].args :
                                  HasHandle(ChainView(c)[i].args[k])}}
            : i \in 1..Len(ctxs[c]) }

SlotValue(c, t) ==
    LET v == ChainView(c)[t.pos].args[t.k] IN
    IF t.idx = 0 THEN v ELSE v.items[t.idx]

(* C1: select and select_multiple leave their receiver as it was (the same *)
(* nodes in the same order, each with the same type name, field name, args *)
(* and children), leave every other Context as it was, and return a        *)
(* Context that did not exist before.                                      *)
C1_ReceiverNotMutated ==
    [][(last'.op \in {"select", "select_multiple"} /\ last' # last) =>
         /\ last'.res \notin Ctxs
         /\ last'.res \in 1..Len(ctxs')
         /\ \A c \in Ctxs :
              /\ ctxs'[c] = ctxs[c]
              /\ ChainView(c)' = ChainView(c)
              /\ \A i \in 1..Len(ctxs[c]) : fields'[ctxs[c][i]] = fields[ctxs[c][i]]]_vars

C1_Witness ==
    /\ last.op \in {"select", "select_multiple"}
    /\ Len(ctxs[last.ctx]) >= 2
    /\ HandleSlots(last.ctx) # {}

(* C2 as claimed: a step of resolve_ids of one Context never changes the   *)
(* argument values seen through another Context.                           *)
C2_ForksNeverObserveResolution ==
    [][(last'.op \in {"resolve_ids", "resolved"} /\ last' # last) =>
         \A c \in Ctxs \ {last'.ctx} : ChainView(c)' = ChainView(c)]_vars

(* what a resolution may do to one argument value                          *)
ResolvedFrom(old, new) ==
    \/ new = old
    \/ old.kind = "handle" /\ new = Id(old.v)
    \/ /\ old.kind = "seq" /\ new.kind = "seq"
       /\ Len(new.items) = Len(old.items)
       /\ \A i \in 1..Len(old.items) :
            \/ new.items[i] = old.items[i]
            \/ old.items[i].kind = "handle" /\ new.items[i] = Id(old.items[i].v)

(* C2 amended: forks share node objects and args dictionaries, so a step   *)
(* of resolve_ids of one Context shows through every Context holding a     *)
(* node with the same args dictionary, where it only replaces a handle by  *)
(* that handle's identifier; a Context that shares no args dictionary with *)
(* the resolving one sees nothing, and no node sequence is changed.        *)
C2_SharedNodesOnlyResolve ==
    [][(last'.op \in {"resolve_ids", "resolved"} /\ last' # last) =>
         \A c \in Ctxs :
            /\ ctxs'[c] = ctxs[c]
            /\ DictsOfCtx(c) \cap DictsOfCtx(last'.ctx) = {} => ChainView(c)' = ChainView(c)
            /\ \A i \in 1..Len(ctxs[c]) :
                 /\ fields'[ctxs[c][i]] = fields[ctxs[c][i]]
                 /\ DOMAIN ChainView(c)'[i].args = DOMAIN ChainView(c)[i].args
                 /\ \A k \in DOMAIN ChainView(c)[i].args :
                      ResolvedFrom(ChainView(c)[i].args[k], ChainView(c)'[i].args[k])]_vars

(* a sequence element was resolved by one Context and shows in another     *)
C2_Witness ==
    /\ last.op = "resolved"
    /\ last.task.idx > 0
    /\ \E c \in Ctxs \ {last.ctx} :
         /\ ex[c].pc = "idle"
         /\ \E i \in 1..Len(ctxs[c]) :
              /\ fields[ctxs[c][i]].args \in DictsOfCtx(last.ctx)
              /\ last.task.k \in DOMAIN ChainView(c)[i].args
              /\ ChainView(c)[i].args[last.task.k].items[last.task.idx] = Id(last.task.h)

(* C3: the main request of a chain is with the session only when none of   *)
(* the chain's sub-resolutions is still in flight.                         *)
C3_SendAfterResolutions ==
    \A c \in Ctxs :
        (ex[c].pc = "sent" \/ ex[c].query # NoQuery) => ex[c].tasks = {}

C3_Witness ==
    \E c \in Ctxs : ex[c].pc = "sent" /\ Cardinality(ex[c].launched) >= 2

(* a step of the execute of Context c between its start and its send      *)
ResolveStep(c) ==
    \/ \E t \in ex[c].tasks : TaskDone(c, t) \/ TaskFail(c, t) \/ TaskCancelled(c, t)
    \/ ExecSend(c)

(* C4: a resolve_ids under way can always take a step, its tasks in flight *)
(* are among those it launched, and once it has returned without a failure *)
(* every slot it launched a sub-resolution for holds an identifier and no  *)
(* argument slot of the chain holds a handle.                              *)
C4_AllSlotsResolved ==
    \A c \in Ctxs :
        /\ ex[c].tasks \subseteq ex[c].launched
        /\ ex[c].pc = "resolving" => ENABLED ResolveStep(c)
        /\ (ex[c].pc \notin {"idle", "resolving"} /\ ~ex[c].failed) =>
              /\ HandleSlots(c) = {}
              /\ \A t \in ex[c].launched : SlotValue(c, t).kind = "id"

C4_Witness ==
    \E c \in Ctxs :
        /\ ex[c].pc = "sent"
        /\ \E t1, t2 \in ex[c].launched : t1.idx = 0 /\ t2.idx = 2

(* C5: when a sub-resolution failed, execute raises that failure and the   *)
(* chain is never compiled nor sent.                                       *)
C5_FailedResolutionNeverSends ==
    \A c \in Ctxs :
        ex[c].failed =>
            /\ ex[c].pc \in {"resolving", "raised"}
            /\ ex[c].query = NoQuery
            /\ ex[c].pc = "raised" => ex[c].err = "ResolveError"

C5_Witness ==
    \E c \in Ctxs :
        ex[c].failed /\ ex[c].pc = "raised" /\ Cardinality(ex[c].launched) >= 2

(* the root that build returns, walked from the top along the chain        *)
RECURSIVE NestsChain(_, _, _)
NestsChain(node, chain, i) ==
    /\ node.type_name = chain[i].type_name
    /\ node.name = chain[i].name
    /\ node.args = chain[i].args
    /\ IF i < Len(chain)
       THEN /\ DOMAIN node.children = {chain[i + 1].name}
            /\ NestsChain(node.children[chain[i + 1].name], chain, i + 1)
       ELSE node.children = chain[i].children

ContainerFromId ==
    [type_ |-> "Query", field |-> "container", args |-> EmptyMap,
     selected |-> ("from" :>
        [type_ |-> "Container", field |-> "from",
         args |-> [k \in {"address", "args", "tty", "buildArg"} |->
                     CASE k = "address" -> Str("alpine")
                       [] k = "args" -> SeqOf("list", << >>)
                       [] k = "tty" -> Bool("True")
                       [] k = "buildArg" -> Dict("BuildArg")],
         selected |-> ("id" :>
            [type_ |-> "Container", field |-> "id", args |-> EmptyMap,
             selected |-> EmptyMap])])]

(* C6: build of a non-empty chain n1..nk returns a root that is n1, where  *)
(* every ni before the last has n(i+1) as its only child, under n(i+1)'s   *)
(* field name, and the last node keeps its own children; the aliases of    *)
(* select_multiple are rendered as sibling leaves, and container, from, id *)
(* renders as container{from(...){id}}.                                     *)
C6_BuildNestsChain ==
    (last.op = "build" /\ last.err = "none") =>
        LET c == last.ctx
            chain == [i \in 1..Len(ctxs[c]) |-> fields[ctxs[c][i]]]
            lastNode == chain[Len(chain)]
        IN /\ NestsChain(last.root, chain, 1)
           /\ last.dsl.field = chain[1].name
           /\ (Len(chain) = 1 /\ lastNode.children # EmptyMap) =>
                 /\ DOMAIN last.dsl.selected = DOMAIN lastNode.children
                 /\ \A a \in DOMAIN lastNode.children :
                      /\ last.dsl.selected[a].field = lastNode.children[a].name
                      /\ last.dsl.selected[a].selected = EmptyMap
           /\ (/\ Len(chain) = 3
               /\ lastNode.children = EmptyMap
               /\ \A i \in 1..3 :
                    hist[c][i].field_name = <<"container", "from", "id">>[i]) =>
                 last.dsl = ContainerFromId

(* a node before the last one had children of its own when build ran       *)
C6_Witness ==
    /\ last.op = "build"
    /\ last.err = "none"
    /\ Len(ctxs[last.ctx]) = 2
    /\ fields[ctxs[last.ctx][1]].children # EmptyMap

(* C7: build fails with the query-construction error exactly on an empty   *)
(* chain, and returns a root on every other chain.                         *)
C7_BuildFailsIffEmpty ==
    last.op = "build" =>
        /\ Len(ctxs[last.ctx]) = 0 => last.err = "InvalidQueryError"
        /\ Len(ctxs[last.ctx]) > 0 =>
              /\ last.err = "none"
              /\ last.root.name = fields[ctxs[last.ctx][1]].name

C7_Witness ==
    /\ last.op = "build"
    /\ last.err = "none"
    /\ Len(ctxs[last.ctx]) = 1
    /\ \E c \in Ctxs : Len(ctxs[c]) = 0

(* C8: a chain is as long as the number of select calls that made it, its  *)
(* i-th node carries the names of the i-th call, and select_multiple keeps *)
(* the length.                                                             *)
C8_ChainFollowsSelects ==
    /\ \A c \in Ctxs :
         /\ Len(ctxs[c]) = Len(hist[c])
         /\ \A i \in 1..Len(ctxs[c]) :
              /\ fields[ctxs[c][i]].type_name = hist[c][i].type_name
              /\ fields[ctxs[c][i]].name = hist[c][i].field_name
    /\ last.op = "select" => Len(ctxs[last.res]) = Len(ctxs[last.ctx]) + 1
    /\ last.op = "select_multiple" => Len(ctxs[last.res]) = Len(ctxs[last.ctx])

C8_Witness ==
    /\ last.op = "select"
    /\ Len(ctxs[last.res]) = 3
    /\ hist[last.res][1] # hist[last.res][3]

(* C9 as claimed: the node made by select has an argument exactly when the *)
(* argument's value differs from its declared default.                     *)
C9_DefaultsDropped ==
    last.op = "select" =>
        LET args_ == ArgsOf(Heap, fields[Last(ctxs[last.res])].args) IN
        \A i \in 1..Len(last.call.args) :
            LET arg == last.call.args[i] IN
            /\ arg.value = arg.default => arg.name \notin DOMAIN args_
            /\ arg.value # arg.default => arg.name \in DOMAIN args_

(* C10: select_multiple gives the last node exactly the aliases of its     *)
(* field map as children, each a leaf with the mapped field name, no args  *)
(* and no children, whatever children the node had; the node's type name,  *)
(* field name and args and the earlier nodes are those of the receiver.    *)
C10_SelectMultipleReplaces ==
    last.op = "select_multiple" =>
        LET new == fields[Last(ctxs[last.res])]
            old == fields[Last(ctxs[last.ctx])]
        IN /\ DOMAIN new.children = DOMAIN last.fmap
           /\ \A a \in DOMAIN last.fmap :
                /\ new.children[a].name = last.fmap[a]
                /\ new.children[a].type_name = last.type_name
                /\ ArgsOf(Heap, new.children[a].args) = EmptyMap
                /\ new.children[a].children = EmptyMap
           /\ new.type_name = old.type_name
           /\ new.name = old.name
           /\ ArgsOf(Heap, new.args) = ArgsOf(Heap, old.args)
           /\ Front(ctxs[last.res]) = Front(ctxs[last.ctx])

(* select_multiple on a node that has the aliases of another field map     *)
C10_Witness ==
    /\ last.op = "select_multiple"
    /\ fields[Last(ctxs[last.ctx])].children # EmptyMap
    /\ DOMAIN fields[Last(ctxs[last.ctx])].children # DOMAIN last.fmap

(* the node of a compiled document that renders the pos-th chain node      *)
RECURSIVE DslAt(_, _)
DslAt(q, pos) ==
    IF pos = 1 THEN q
    ELSE DslAt(q.selected[CHOOSE a \in DOMAIN q.selected : TRUE], pos - 1)

RECURSIVE DslHasHandle(_)
DslHasHandle(q) ==
    \/ \E k \in DOMAIN q.args : HasHandle(q.args[k])
    \/ \E a \in DOMAIN q.selected : DslHasHandle(q.selected[a])

(* the sub-resolutions started for the value of argument k of node i       *)
TasksFor(tasks, i, k) == {t \in tasks : t.pos = i /\ t.k = k}

(* C11: the loop of resolve_ids starts exactly one identifier fetch for    *)
(* every handle argument of the chain (a handle passed on its own, or an   *)
(* element of a sequence) and none for anything else; when the document is *)
(* compiled every fetch has been made and the document holds, in the place *)
(* of each handle, that handle's identifier and no handle at all.          *)
C11_OneFetchPerHandle ==
    [][/\ (last'.op = "resolve_ids" /\ last' # last) =>
            LET c == last'.ctx IN
            \A i \in 1..Len(ctxs[c]) : \A k \in DOMAIN ChainView(c)[i].args :
                LET v == ChainView(c)[i].args[k]
                    ts == TasksFor(ex'[c].launched, i, k)
                IN /\ v.kind = "handle" =>
                        ts = {[pos |-> i, k |-> k, idx |-> 0, h |-> v.v]}
                   /\ v.kind = "seq" =>
                        /\ \A t \in ts : t.idx \in 1..Len(v.items)
                        /\ \A j \in 1..Len(v.items) :
                             {t \in ts : t.idx = j} =
                                IF v.items[j].kind = "handle"
                                THEN {[pos |-> i, k |-> k, idx |-> j, h |-> v.items[j].v]}
                                ELSE {}
                   /\ v.kind \notin {"handle", "seq"} => ts = {}
       /\ (last'.op = "send" /\ last' # last) =>
            LET c == last'.ctx
                q == ex'[c].query
            IN /\ ex'[c].tasks = {}
               /\ ~DslHasHandle(q)
               /\ \A t \in ex'[c].launched :
                    LET v == DslAt(q, t.pos).args[t.k] IN
                    (IF t.idx = 0 THEN v ELSE v.items[t.idx]) = Id(t.h)]_vars

C11_Witness ==
    /\ last.op = "send"
    /\ \E t1, t2 \in ex[last.ctx].launched : t1.pos # t2.pos /\ t1.h = t2.h

(* C12: once a sub-resolution of a batch has failed, no task of that batch *)
(* writes an identifier any more (a task that leaves the batch leaves its  *)
(* slot as it was), and resolve_ids raises only when no task of the batch  *)
(* is in flight.                                                           *)
C12_FailureCancelsSiblings ==
    [][/\ (last'.op = "resolved" /\ last' # last) => ~ex[last'.ctx].failed
       /\ \A c \in Ctxs :
            /\ (ex[c].failed /\ ex'[c].runs = ex[c].runs) =>
                 /\ ex'[c].failed
                 /\ \A t \in ex[c].tasks \ ex'[c].tasks :
                      SlotValue(c, t)' = SlotValue(c, t)
            /\ (ex'[c].pc = "raised" /\ ex'[c].failed) => ex'[c].tasks = {}]_vars

(* one sibling completed, one failed, one was cancelled                    *)
C12_Witness ==
    /\ last.op = "resolve_cancelled"
    /\ ex[last.ctx].tasks = {}
    /\ \E t1, t2 \in ex[last.ctx].launched :
         /\ SlotValue(last.ctx, t1).kind = "id"
         /\ SlotValue(last.ctx, t2).kind = "handle"

(* C13: every failure of session.execute makes execute raise, and never    *)
(* return: a timeout raises the Timeout error, any other request error, a  *)
(* closed connection and a protocol or server error raise the Transport    *)
(* error, a query error raises the derived Query error when there is one   *)
(* and is re-raised as it is otherwise.                                    *)
C13_FailuresMapped ==
    /\ last.op = "return" => last.outcome = "ok" /\ ex[last.ctx].pc = "done"
    /\ (last.op = "raise" /\ last.outcome \notin {"none", "ok"}) =>
          /\ ex[last.ctx].pc = "raised"
          /\ ex[last.ctx].err = last.err
          /\ ex[last.ctx].result = PNull
          /\ last.outcome = "TimeoutException" => last.err = "ExecuteTimeoutError"
          /\ last.outcome \in {"RequestError", "TransportClosed",
                               "TransportProtocolError", "TransportServerError"} =>
                last.err = "TransportError"
          /\ last.outcome = "TransportQueryError:derivable" => last.err = "QueryError"
          /\ last.outcome = "TransportQueryError:raw" => last.err = "TransportQueryError"
          /\ last.err \in {"ExecuteTimeoutError", "TransportError", "QueryError",
                           "TransportQueryError"}

C13_Witness ==
    /\ last.op = "raise"
    /\ last.outcome = "TimeoutException"
    /\ ex[last.ctx].launched # {}

(* ------------------------------- C14 ----------------------------------- *)
(* the field names of the chain of Context c, in chain order               *)
NamesOf(c) == [i \in 1..Len(ctxs[c]) |-> fields[ctxs[c][i]].name]

(* the value found in `payload` under the first d names, looked up one     *)
(* after the other; defined while every value on the way is a mapping      *)
(* that has the name                                                       *)
RECURSIVE PathValue(_, _, _)
PathValue(payload, names, d) ==
    IF d = 0 THEN payload ELSE PathValue(payload, names, d - 1).m[names[d]]

(* the depths at which the walk can stop: the end of the chain, or the     *)
(* first value on the way that is not a mapping                            *)
StopDepths(payload, names) ==
    {d \in 0..Len(names) :
        /\ \A e \in 0..(d - 1) :
              /\ PathValue(payload, names, e).kind = "map"
              /\ names[e + 1] \in DOMAIN PathValue(payload, names, e).m
        /\ d = Len(names) \/ PathValue(payload, names, d).kind # "map"}

NullAccepting == {"Optional[str]"}

(* C14: when the walk of get_value reaches a null, execute raises the      *)
(* invalid-query error if the return type does not accept null, and        *)
(* returns the null if it does.                                            *)
C14_NullByReturnType ==
    (last.op \in {"return", "raise"} /\ last.outcome = "ok"
     /\ last.return_type # "None")
    => \A d \in StopDepths(last.payload, NamesOf(last.ctx)) :
          PathValue(last.payload, NamesOf(last.ctx), d) = PNull
          => IF last.return_type \in NullAccepting
             THEN /\ last.op = "return"
                  /\ ex[last.ctx].pc = "done"
                  /\ ex[last.ctx].result = PNull
             ELSE /\ last.op = "raise"
                  /\ last.err = "InvalidQueryError"
                  /\ ex[last.ctx].pc = "raised"
                  /\ ex[last.ctx].err = "InvalidQueryError"

(* execute raised the invalid-query error for a null met half way down a   *)
(* chain of three fields                                                   *)
C14_Witness ==
    /\ last.op = "raise" /\ last.outcome = "ok"
    /\ last.err = "InvalidQueryError"
    /\ last.return_type = "str"
    /\ Len(ctxs[last.ctx]) = 3
    /\ 2 \in StopDepths(last.payload, NamesOf(last.ctx))

(* ------------------------------- C18 ----------------------------------- *)
(* C18: get_value looks the field names up in chain order and stops at the *)
(* first value that is not a mapping: execute returns the decoding of the  *)
(* value at the stop depth, so the response container->from->id gives the  *)
(* inner id string, and a list met before the end of the chain is returned *)
(* without error.                                                          *)
C18_WalkInChainOrder ==
    (last.op \in {"return", "raise"} /\ last.outcome = "ok"
     /\ last.return_type # "None")
    => LET names == NamesOf(last.ctx)
           stops == StopDepths(last.payload, names)
       IN /\ Cardinality(stops) = 1
          /\ \A d \in stops :
               LET v == PathValue(last.payload, names, d) IN
               /\ v.kind = "str" =>
                     last.op = "return" /\ ex[last.ctx].result = v
               /\ (v.kind = "list" /\ last.return_type \in {"str", "Optional[str]"}) =>
                     /\ last.op = "return"
                     /\ ex[last.ctx].result = [kind |-> "str", of |-> v]
               /\ last.return_type = "Obj" =>
                     /\ d = Len(names) /\ last.op = "return"
                     /\ ex[last.ctx].result.kind = "obj"
                     /\ \A s \in DOMAIN v.m \cap ObjSlots :
                          ex[last.ctx].result.attrs[s] = v.m[s]
               /\ last.return_type = "list[Obj]" =>
                     /\ d = Len(names) /\ last.op = "return"
                     /\ Len(ex[last.ctx].result.items) = Len(v.items)
                     /\ \A j \in 1..Len(v.items) :
                          \A s \in DOMAIN v.items[j].m \cap ObjSlots :
                             ex[last.ctx].result.items[j].attrs[s] = v.items[j].m[s]
               /\ (names = <<"container", "from", "id">>
                   /\ last.payload = PMap("container" :> PMap("from" :>
                                        PMap("id" :> Str("abc123")))))
                  => last.op = "return"
                     /\ ex[last.ctx].result = Str("abc123")

(* a list met at depth 2 of a chain of three fields was returned           *)
C18_Witness ==
    /\ last.op = "return" /\ last.outcome = "ok"
    /\ last.return_type = "str"
    /\ Len(ctxs[last.ctx]) = 3
    /\ 2 \in StopDepths(last.payload, NamesOf(last.ctx))
    /\ PathValue(last.payload, NamesOf(last.ctx), 2).kind = "list"

(* the response container->from->id was decoded                            *)
C18_WitnessId ==
    /\ last.op = "return" /\ last.outcome = "ok"
    /\ NamesOf(last.ctx) = <<"container", "from", "id">>
    /\ last.payload = PMap("container" :> PMap("from" :> PMap("id" :> Str("abc123"))))
    /\ ex[last.ctx].result = Str("abc123")

(* ------------------------------- C16 ----------------------------------- *)
(* resolve_ids of the last execute on Context e completed without raising  *)
ResolvedOK(e) ==
    \/ ex[e].pc \in {"sent", "done"}
    \/ ex[e].pc = "raised" /\ ex[e].err # "ResolveError"

(* Context c was derived from Context e and still holds a node of e that   *)
(* resolve_ids of e has resolved                                           *)
ForkWithResolvedNode(c, e) ==
    /\ c # e
    /\ Len(hist[e]) <= Len(hist[c])
    /\ SubSeq(hist[c], 1, Len(hist[e])) = hist[e]
    /\ \E t \in ex[e].launched : fields[ctxs[e][t.pos]].args \in DictsOfCtx(c)

(* the args dictionaries of the chains whose resolve_ids completed         *)
ResolvedDicts == UNION {DictsOfCtx(e) : e \in {e \in Ctxs : ResolvedOK(e)}}

(* C16 as stated: once resolve_ids has completed on a chain, resolve_ids   *)
(* run again on that Context, or on a Context forked from it that still    *)
(* holds the resolved node, launches no sub-execution and leaves every     *)
(* argument value unchanged.                                               *)
C16_RerunLaunchesNothing ==
    [][\A c \in Ctxs :
         (/\ ex'[c].runs # ex[c].runs
          /\ \E e \in Ctxs : ResolvedOK(e) /\ (e = c \/ ForkWithResolvedNode(c, e)))
         => ex'[c].launched = {} /\ dicts' = dicts]_vars

(* C16, amended: resolve_ids run again on the Context launches nothing and *)
(* changes nothing; run on any other Context it launches no sub-execution  *)
(* for, and leaves unchanged, the arguments of every node that belongs to  *)
(* a chain whose resolve_ids has completed.                                *)
C16_NoRefetchOfResolvedNodes ==
    [][\A c \in Ctxs :
         ex'[c].runs # ex[c].runs
         => /\ \A t \in ex'[c].launched :
                  fields[ctxs[c][t.pos]].args \notin ResolvedDicts
            /\ \A d \in ResolvedDicts : dicts'[d] = dicts[d]
            /\ ResolvedOK(c) => ex'[c].launched = {} /\ dicts' = dicts]_vars

(* resolve_ids has just run on a fork of a resolved chain: the fork added  *)
(* a node with handles, and sub-executions were started for that node only *)
C16_Witness ==
    /\ last.op = "resolve_ids"
    /\ ex[last.ctx].launched # {}
    /\ \E e \in Ctxs :
          /\ ResolvedOK(e)
          /\ ForkWithResolvedNode(last.ctx, e)
          /\ \A t \in ex[last.ctx].launched : t.pos > Len(ctxs[e])

(* resolve_ids has just run a second time on a Context with handle         *)
(* arguments, and started nothing                                          *)
C16_WitnessRerun ==
    /\ last.op = "resolve_ids"
    /\ ex[last.ctx].runs = 2
    /\ ex[last.ctx].launched = {}
    /\ \E i \in 1..Len(hist[last.ctx]) : \E j \in 1..Len(hist[last.ctx][i].args) :
          HasHandle(hist[last.ctx][i].args[j].value)

(* ------------------------------- C17 ----------------------------------- *)
(* a value with every handle replaced by its identifier, a sequence being  *)
(* a list with the same elements in the same order                         *)
IdsFor(v) ==
    IF v.kind = "handle" THEN Id(v.v)
    ELSE IF v.kind = "seq"
    THEN [kind |-> "seq", ty |-> "list",
          items |-> [j \in 1..Len(v.items) |->
                        IF v.items[j].kind = "handle" THEN Id(v.items[j].v)
                        ELSE v.items[j]]]
    ELSE v

(* C17: a sub-resolution of element idx of a sequence argument stores the  *)
(* identifier at index idx and leaves the length and every other element   *)
(* (and every other argument) as they were; when resolve_ids has completed *)
(* the argument is the list of the identifiers of the handles passed, in   *)
(* the order passed, whatever the order of completion.                     *)
C17_WrittenAtOriginalIndex ==
    [][\A c \in Ctxs :
         /\ \A t \in ex[c].tasks \ ex'[c].tasks :
              (last'.op = "resolved" /\ last'.ctx = c /\ last'.task = t /\ t.idx > 0)
              => LET d == fields[ctxs[c][t.pos]].args
                     old == dicts[d][t.k]
                     new == dicts'[d][t.k]
                 IN /\ new.kind = "seq" /\ Len(new.items) = Len(old.items)
                    /\ new.items[t.idx] = Id(t.h)
                    /\ old.items[t.idx] \in {Handle(t.h), Id(t.h)}
                    /\ \A j \in 1..Len(old.items) :
                         j # t.idx => new.items[j] = old.items[j]
                    /\ \A e \in DOMAIN dicts : \A k \in DOMAIN dicts[e] :
                         (e # d \/ k # t.k) => dicts'[e][k] = dicts[e][k]
         /\ (ex[c].pc = "resolving" /\ ex'[c].pc = "sent")
            => \A i \in 1..Len(hist[c]) : \A a \in 1..Len(hist[c][i].args) :
                 LET arg == hist[c][i].args[a] IN
                 (arg.value.kind = "seq" /\ HasHandle(arg.value))
                 => dicts'[fields[ctxs[c][i]].args][arg.name] = IdsFor(arg.value)]_vars

(* the second handle of a sequence was resolved before the first: another  *)
(* execute sharing the argument scanned it in between (the identifier at   *)
(* index 2 kept its place, one fetch was started for index 1); then the    *)
(* first was resolved and the document was sent with both in order         *)
C17_Witness ==
    /\ last.op = "send"
    /\ \E t \in ex[last.ctx].launched :
          /\ t.idx = 2
          /\ ChainView(last.ctx)[t.pos].args[t.k].items = <<Id("h1"), Id("h2")>>
    /\ \E e \in Ctxs :
          /\ e # last.ctx
          /\ ex[e].pc = "resolving"
          /\ ex[e].launched = {t \in ex[last.ctx].launched : t.idx = 1}

BuildStep ==
    \/ last' # last /\ last'.op \in {"build", "send"}
    \/ \E c \in Ctxs : /\ ex[c].pc = "resolving" /\ ex'[c].pc = "raised"
                       /\ ex'[c].err = "InvalidQueryError"

(* C20: build, returning or raising, leaves every Context's selections,    *)
(* every node (type name, field name, args reference, children) and every  *)
(* args dictionary as they were, so that building any Context gives after  *)
(* it what it gave before it.                                              *)
C20_BuildReadOnly ==
    [][BuildStep =>
         /\ ctxs' = ctxs
         /\ fields' = fields
         /\ dicts' = dicts
         /\ \A c \in Ctxs : build(Heap, c)' = build(Heap, c)]_vars

(* a chain of two or more nodes was built after a Context sharing its      *)
(* first node had its document compiled by execute                         *)
C20_Witness ==
    /\ last.op = "build" /\ last.err = "none"
    /\ Len(ctxs[last.ctx]) >= 2
    /\ \E e \in Ctxs :
          /\ e # last.ctx
          /\ Len(ctxs[e]) >= 2
          /\ ex[e].query # NoQuery
          /\ ctxs[e][1] = ctxs[last.ctx][1]
          /\ ctxs[e][2] # ctxs[last.ctx][2]

(* ------------------------------- C15 ----------------------------------- *)
(* the object handles in a value returned by execute                       *)
DecodedHandles(v) ==
    IF v.kind = "obj" THEN {v}
    ELSE IF v.kind = "list"
    THEN {v.items[j] : j \in {j \in 1..Len(v.items) : v.items[j].kind = "obj"}}
    ELSE {}

(* C15: every object handle decoded from a response, alone or in a list,   *)
(* is bound to a Context whose selection chain is empty.                   *)
C15_DecodedHandlesOnEmptyChain ==
    \A c \in Ctxs :
       ex[c].pc = "done"
       => \A o \in DecodedHandles(ex[c].result) : Len(ctxs[o.ctx]) = 0
====
